---- MODULE Spec2Model ----
(***************************************************************************)
(* Model of kfs/generators.py: the batch partitioners, the three batch     *)
(* generators (time_delay_generator, time_delay_generator_AE,              *)
(* time_delay_generator_conv) and the threadsafe_iter wrapper.             *)
(*                                                                         *)
(* Arrays are sequences; an array position p (0-based in the code) is      *)
(* element p+1 of the sequence.  The values stored in index arrays and     *)
(* batch ranges are the code's 0-based numbers.                            *)
(***************************************************************************)
EXTENDS Integers, Sequences, FiniteSets, TLC

VARIABLES
    args,             \* the arguments the function / generator was called with
    index_array,      \* generator local: index_array
    batches,          \* generator local: batches (list of (start, end))
    batch_index,      \* generator local: batch_index of the for loop
    gen_pc,           \* where the generator frame (or the function) stands
    gen_running,      \* the generator object is executing (gi_running)
    batch_ids,        \* generator local: batch_ids
    batch_ids_delay,  \* generator local: batch_ids_delay
    out,              \* the value of the last yield
    lock,             \* threadsafe_iter.lock: 0 when free, else the holder
    pc,               \* position of every consumer thread
    delivered,        \* values handed out by it.next(), in order
    pass,             \* number of completed passes of the while loop
    seen,             \* the batch_ids yielded so far in the current pass
    weights           \* the caller's weights array (<<>> when None)

vars == <<args, index_array, batches, batch_index, gen_pc, gen_running,
          batch_ids, batch_ids_delay, out, lock, pc, delivered, pass, seen,
          weights>>

----------------------------------------------------------------------------
(* Bounds of the model *)

MaxSize == 20
MaxBatch == 6
MaxN == 3
MaxDelay == 2
MaxCalls == 4
NumThreads == 2
MaxConvN == 5
MaxFilt == 2
MaxFrames == 2
MaxTRs == 2
MaxRows == 6
MaxIds == 4
MaxCount == 3

----------------------------------------------------------------------------
(* Arithmetic and array helpers *)

Min(a, b) == IF a <= b THEN a ELSE b

Max(a, b) == IF a >= b THEN a ELSE b

\* int(np.ceil(a / float(b))) for b > 0, a of either sign
CeilDiv(a, b) == -((-a) \div b)

\* range(0, n): empty when n <= 0
PyRange(n) == [i \in 1..Max(n, 0) |-> i - 1]

\* a[start:end] for 0 <= start, end: both ends are clipped to the length
PySlice(a, start, end) == SubSeq(a, Min(start, Len(a)) + 1, Min(end, Len(a)))

\* a[i] along the leading axis: a negative i counts from the end, an i
\* outside [-len, len) raises IndexError
PyIndex(a, i) ==
    IF 0 <= i /\ i < Len(a) THEN a[i + 1]
    ELSE IF -Len(a) <= i /\ i < 0 THEN a[Len(a) + i + 1]
    ELSE "IndexError"

----------------------------------------------------------------------------
(* The batch partitioners *)

\* mutant: the trailing partial batch is dropped (floor instead of ceil)
_make_batches_floor(size, batch_size) ==
    LET r == PyRange(size \div batch_size)
    IN  [p \in 1..Len(r) |->
            <<r[p] * batch_size, Min(size, (r[p] + 1) * batch_size)>>]

\* mutant: the "+ 1" of the window count is missing
_make_batches_overlap_short(size, batch_size, overlap, filt_length) ==
    LET nb_batch == CeilDiv(size - batch_size, batch_size - overlap)
        r == PyRange(nb_batch)
    IN  [p \in 1..Len(r) |->
            <<r[p] * (batch_size - overlap),
              Min(size, (r[p] + 1) * batch_size - r[p] * overlap)>>]

\* keras.engine.training._make_batches(size, batch_size)
_make_batches(size, batch_size) ==
    LET nb_batch == CeilDiv(size, batch_size)
        r == PyRange(nb_batch)
    IN  [p \in 1..Len(r) |->
            <<r[p] * batch_size, Min(size, (r[p] + 1) * batch_size)>>]

_make_batches_overlap(size, batch_size, overlap, filt_length) ==
    LET nb_batch == CeilDiv(size - batch_size, batch_size - overlap) + 1
        r == PyRange(nb_batch)
    IN  [p \in 1..Len(r) |->
            <<r[p] * (batch_size - overlap),
              Min(size, (r[p] + 1) * batch_size - r[p] * overlap)>>]

----------------------------------------------------------------------------
(* The caller's arrays.  Row i of an array is an opaque value (its trailing *)
(* axes are never touched by the code); distinct rows are distinct values.  *)

\* x[j-1] of the caller: the j-th source array, N rows
X(j, N) == [p \in 1..N |-> 100 * j + (p - 1)]

\* the caller's y, N rows
Y(N) == [p \in 1..N |-> 50 + (p - 1)]

\* the caller's weights[:, 0], N entries
W(N) == [p \in 1..N |-> 2 + (p - 1)]

\* the number of rows of the caller's y: that of x, unless the caller passes
\* a y of another length (y_rows)
YRows(a) == IF "y_rows" \in DOMAIN a THEN a.y_rows ELSE a.N

\* x after "if type(x) is not list: x = list([x])"
XList(a) == IF a.x_is_list THEN <<X(1, a.N), X(2, a.N)>> ELSE <<X(1, a.N)>>

\* delays after "if type(delays) is int: delays = range(delays)"
DelaySet(d) == IF d[1] = "int" THEN PyRange(d[2]) ELSE d[2]

----------------------------------------------------------------------------
(* Delay-index building and sample assembly *)

\* mutant: the lower clamp np.maximum(0, .) is missing
ClampDelay_NoFloor(ids, delays, N) ==
    [k \in 1..Len(delays) |->
        [b \in 1..Len(ids) |-> Min(ids[b] - delays[k], N - 1)]]

\* [np.minimum(np.maximum(0, batch_ids - d), N - 1) for d in delays]
ClampDelay(ids, delays, N) ==
    [k \in 1..Len(delays) |->
        [b \in 1..Len(ids) |-> Min(Max(0, ids[b] - delays[k]), N - 1)]]

\* [np.maximum(0, batch_ids - d) for d in range(delays)]
ClampDelayAE(ids, delays) ==
    LET r == PyRange(delays)
    IN  [k \in 1..Len(r) |-> [b \in 1..Len(ids) |-> Max(0, ids[b] - r[k])]]

\* xx[ids, :] for a 1-D index list
Take(xx, ids) == [b \in 1..Len(ids) |-> PyIndex(xx, ids[b])]

\* xx[idx, :] for a list of index arrays: axis 0 is the delay, axis 1 the sample
Gather(xx, idx) == [k \in 1..Len(idx) |-> Take(xx, idx[k])]

\* mutant: the gathered array is used without the transpose
Transpose_None(g) == g

\* .transpose([1, 0, 2, ...]): swaps the two leading axes
Transpose(g) ==
    IF Len(g) = 0 THEN <<>>
    ELSE [b \in 1..Len(g[1]) |-> [k \in 1..Len(g) |-> g[k][b]]]

\* mutant: the comparison of line 86 is <= instead of <
ZeroWarmup_Le(w, ids, delays) ==
    [b \in 1..Len(w) |-> IF ids[b] <= delays[Len(delays)] THEN 0 ELSE w[b]]

\* w_batch[batch_ids < delays[-1]] = 0.
ZeroWarmup(w, ids, delays) ==
    [b \in 1..Len(w) |-> IF ids[b] < delays[Len(delays)] THEN 0 ELSE w[b]]

\* mutant: w_batch is a view of the caller's array (as weights[start:end]
\* would be), so the zeroing of line 86 writes through to it
CallerWeightsAfter_View(a, wts, ids) ==
    IF a.gen = "time_delay_generator" /\ a.y /\ a.weights
    THEN LET delays == DelaySet(a.delays)
         IN  [p \in 1..Len(wts) |->
                IF \E b \in 1..Len(ids) : ids[b] = p - 1 /\ ids[b] < delays[Len(delays)]
                THEN 0 ELSE wts[p]]
    ELSE wts

\* the caller's weights after a batch: weights[batch_ids, :] with an index
\* array is a copy, so "w_batch[...] = 0." leaves the caller's array alone
CallerWeightsAfter(a, wts, ids) == wts

\* the value time_delay_generator yields for batch_ids
YieldTD(a, ids, idx) ==
    LET x == XList(a)
        delays == DelaySet(a.delays)
        x_batch == [j \in 1..Len(x) |-> Transpose(Gather(x[j], idx))]
        w0 == IF a.weights THEN Take(weights, ids)
              ELSE [b \in 1..Len(x_batch[1]) |-> 1]
    IN  IF ~a.y THEN [arity |-> 1, x |-> x_batch]
        ELSE [arity |-> 3, x |-> x_batch, y |-> <<Take(Y(YRows(a)), ids)>>,
              w |-> <<ZeroWarmup(w0, ids, delays)>>]

\* the value time_delay_generator_AE yields
YieldAE(a, idx) ==
    LET x_batch == <<Transpose(Gather(X(1, a.N), idx))>>
    IN  [arity |-> 2, x |-> x_batch, y |-> <<x_batch[1]>>]

\* the value time_delay_generator_conv yields: x[batch_ids, :][None, :]
YieldConv(a, ids) == [arity |-> 1, x |-> << <<Take(X(1, a.N), ids)>> >>]

----------------------------------------------------------------------------
(* Inputs *)

Threads == 1..NumThreads

\* all orderings of n distinct values drawn from S
Orderings(S, n) ==
    {s \in [1..n -> S] : \A i, j \in 1..n : i # j => s[i] # s[j]}

\* delays: an integer count, or an explicit list in any order
DelayInputs ==
    {<<"int", k>> : k \in 1..MaxDelay}
    \cup {<<"list", s>> : s \in Orderings(0..MaxDelay, 2)}

\* weights are only read when y is given
ArgsTD ==
    {a \in {[gen |-> "time_delay_generator", N |-> n, batch_size |-> bs, delays |-> d,
      y |-> hy, weights |-> hw, shuffle |-> sh, x_is_list |-> xl] :
        n \in 1..MaxN, bs \in 1..MaxN, d \in DelayInputs,
        hy \in BOOLEAN, hw \in BOOLEAN, sh \in BOOLEAN, xl \in BOOLEAN} :
            a.weights => a.y}

ArgsAE ==
    {[gen |-> "time_delay_generator_AE", N |-> n, batch_size |-> bs,
      delays |-> d, shuffle |-> sh, y |-> FALSE] :
        n \in 1..MaxN, bs \in 1..MaxN, d \in 1..(MaxDelay + 1), sh \in BOOLEAN}

ArgsConv ==
    {[gen |-> "time_delay_generator_conv", N |-> n, filt_length |-> fl,
      frames_per_TR |-> fp, TRs_in_model |-> tr, y |-> hy] :
        n \in 1..MaxConvN, fl \in 1..MaxFilt, fp \in 1..MaxFrames,
        tr \in 1..MaxTRs, hy \in BOOLEAN}

\* only time_delay_generator carries the @threadsafe_generator decorator
Wrapped(a) == a.gen = "time_delay_generator"

----------------------------------------------------------------------------
(* Generator bodies, one step per stretch of code between two loop heads *)

\* batch_size of time_delay_generator_conv
ConvBatchSize(a) == a.frames_per_TR * a.TRs_in_model + a.filt_length - 1

\* mutant: the recording length is used without rounding it up to whole steps
ConvSizeExpand_None(a) == a.N

\* x_size_expand of time_delay_generator_conv
ConvSizeExpand(a) ==
    CeilDiv(a.N - ConvBatchSize(a), a.frames_per_TR) * a.frames_per_TR
        + ConvBatchSize(a)

\* the code before "while 1": index_array and batches
SetupIndexArray(a) ==
    IF a.gen = "time_delay_generator_conv"
    THEN LET r == PyRange(ConvSizeExpand(a))
         IN  [p \in 1..Len(r) |-> Min(a.N - 1, r[p])]
    ELSE PyRange(a.N)

SetupBatches(a) ==
    IF a.gen = "time_delay_generator_conv"
    THEN _make_batches_overlap(ConvSizeExpand(a), ConvBatchSize(a),
             a.frames_per_TR * (a.TRs_in_model - 1) + a.filt_length - 1,
             a.filt_length)
    ELSE _make_batches(a.N, a.batch_size)

\* mutant: the entries are drawn with replacement instead of reordered
Shuffles_Resample(arr) == [1..Len(arr) -> {arr[p] : p \in 1..Len(arr)}]

\* np.random.shuffle(arr): any reordering of arr
Shuffles(arr) ==
    {s \in [1..Len(arr) -> {arr[p] : p \in 1..Len(arr)}] :
        \A v \in {arr[p] : p \in 1..Len(arr)} :
            Cardinality({p \in 1..Len(arr) : s[p] = v})
                = Cardinality({p \in 1..Len(arr) : arr[p] = v})}

\* index_array[batch_start:batch_end] of the current batch
SliceBatch(arr, bs, i) == PySlice(arr, bs[i + 1][1], bs[i + 1][2])

\* batch_ids_delay of the current batch (AE rebinds batch_ids to it; conv has none)
DelayIndices(a, ids) ==
    IF a.gen = "time_delay_generator"
        THEN ClampDelay(ids, DelaySet(a.delays), a.N)
    ELSE IF a.gen = "time_delay_generator_AE"
        THEN ClampDelayAE(ids, a.delays)
    ELSE <<>>

\* the exception the body of the for loop raises for batch_ids, if any:
\* y[batch_ids, :] with an index that y has no row for
BatchError(a, ids) ==
    IF /\ a.gen = "time_delay_generator"
       /\ a.y
       /\ \E b \in 1..Len(ids) :
             ~(-YRows(a) <= ids[b] /\ ids[b] < YRows(a))
    THEN "IndexError"
    ELSE "none"

\* the yielded value of the current batch
YieldValue(a, ids, idx) ==
    IF a.gen = "time_delay_generator" THEN YieldTD(a, ids, idx)
    ELSE IF a.gen = "time_delay_generator_AE" THEN YieldAE(a, idx)
    ELSE YieldConv(a, ids)

----------------------------------------------------------------------------
(* Initial states: the generator object exists, its body has not run yet *)

\* the weights argument: an array with one entry per row of x, or None
SuppliedWeights(a) ==
    IF "weights" \in DOMAIN a /\ a.weights THEN W(a.N) ELSE <<>>

InitGen(A) ==
    /\ args \in A
    /\ index_array = <<>>
    /\ batches = <<>>
    /\ batch_index = 0
    /\ gen_pc = "entry"
    /\ gen_running = FALSE
    /\ batch_ids = <<>>
    /\ batch_ids_delay = <<>>
    /\ out = [arity |-> 0]
    /\ lock = 0
    /\ pc = [t \in Threads |-> "idle"]
    /\ delivered = <<>>
    /\ pass = 0
    /\ seen = <<>>
    /\ weights = SuppliedWeights(args)

Init == InitGen(ArgsTD \cup ArgsAE \cup ArgsConv)

\* next() calls begun so far; the consumers stop pulling after MaxCalls
Begun == Len(delivered) + Cardinality({t \in Threads : pc[t] \in {"calling", "in"}})

----------------------------------------------------------------------------
(* threadsafe_iter.next and the consumers *)

\* mutant: next() calls the generator without taking the lock first
Acquire_NoLock(t) ==
    /\ Wrapped(args)
    /\ pc[t] = "idle"
    /\ Begun < MaxCalls
    /\ lock' = t
    /\ pc' = [pc EXCEPT ![t] = "calling"]
    /\ UNCHANGED <<args, index_array, batches, batch_index, gen_pc, gen_running,
                   batch_ids, batch_ids_delay, out, delivered, pass,
                   seen, weights>>

\* "with self.lock:" entered by thread t
Acquire(t) ==
    /\ Wrapped(args)
    /\ pc[t] = "idle"
    /\ Begun < MaxCalls
    /\ lock = 0
    /\ lock' = t
    /\ pc' = [pc EXCEPT ![t] = "calling"]
    /\ UNCHANGED <<args, index_array, batches, batch_index, gen_pc, gen_running,
                   batch_ids, batch_ids_delay, out, delivered, pass,
                   seen, weights>>

\* the single consumer of an undecorated generator calls next() directly
Call(t) ==
    /\ ~Wrapped(args)
    /\ t = 1
    /\ pc[t] = "idle"
    /\ Begun < MaxCalls
    /\ pc' = [pc EXCEPT ![t] = "calling"]
    /\ UNCHANGED <<args, index_array, batches, batch_index, gen_pc, gen_running,
                   batch_ids, batch_ids_delay, out, lock, delivered, pass,
                   seen, weights>>

\* self.it.next(): resume the generator frame.  A generator that is already
\* executing raises ValueError, a finished one StopIteration; a frame
\* suspended at the yield continues with the next item of the for loop.
Enter(t) ==
    /\ pc[t] = "calling"
    /\ IF gen_running \/ gen_pc = "done"
       THEN /\ pc' = [pc EXCEPT ![t] = "raised"]
            /\ delivered' = Append(delivered,
                   [val |-> IF gen_running THEN "ValueError" ELSE "StopIteration",
                    pass |-> pass, batch_index |-> batch_index])
            /\ UNCHANGED <<gen_running, gen_pc, batch_index>>
       ELSE /\ pc' = [pc EXCEPT ![t] = "in"]
            /\ gen_running' = TRUE
            /\ gen_pc' = IF gen_pc = "yield" THEN "for" ELSE gen_pc
            /\ batch_index' = IF gen_pc = "yield" THEN batch_index + 1
                              ELSE batch_index
            /\ UNCHANGED delivered
    /\ UNCHANGED <<args, index_array, batches, batch_ids, batch_ids_delay,
                   out, lock, pass,
                   seen, weights>>

\* mutant: the lock is released after a returned value only, as with
\* acquire(); v = it.next(); release() and no try/finally
Release_ReturnOnly(t) ==
    /\ pc[t] \in {"got", "raised"}
    /\ pc' = [pc EXCEPT ![t] = "idle"]
    /\ lock' = IF lock = t /\ pc[t] = "got" THEN 0 ELSE lock
    /\ UNCHANGED <<args, index_array, batches, batch_index, gen_pc, gen_running,
                   batch_ids, batch_ids_delay, out, delivered, pass,
                   seen, weights>>

\* leaving next(): the with block releases the lock it holds
Release(t) ==
    /\ pc[t] \in {"got", "raised"}
    /\ pc' = [pc EXCEPT ![t] = "idle"]
    /\ lock' = IF lock = t THEN 0 ELSE lock
    /\ UNCHANGED <<args, index_array, batches, batch_index, gen_pc, gen_running,
                   batch_ids, batch_ids_delay, out, delivered, pass,
                   seen, weights>>

----------------------------------------------------------------------------
(* The generator body, executed by the thread that resumed it *)

\* the code before the while loop
GenSetup(t) ==
    /\ pc[t] = "in"
    /\ gen_pc = "entry"
    /\ index_array' = SetupIndexArray(args)
    /\ batches' = SetupBatches(args)
    /\ gen_pc' = "while"
    /\ UNCHANGED <<args, batch_index, gen_running, batch_ids, batch_ids_delay,
                   out, lock, pc, delivered, pass,
                   seen, weights>>

\* mutant: the index array is shuffled at every pass, whatever the generator
\* and its shuffle argument
GenWhile_Reshuffle(t) ==
    /\ pc[t] = "in"
    /\ gen_pc = "while"
    /\ index_array' \in Shuffles(index_array)
    /\ batch_index' = 0
    /\ seen' = <<>>
    /\ gen_pc' = "for"
    /\ UNCHANGED <<args, batches, gen_running, batch_ids, batch_ids_delay,
                   out, lock, pc, delivered, pass, weights>>

\* head of "while 1": shuffle if asked to, then start the for loop
GenWhile(t) ==
    /\ pc[t] = "in"
    /\ gen_pc = "while"
    /\ IF args.gen # "time_delay_generator_conv" /\ args.shuffle
       THEN index_array' \in Shuffles(index_array)
       ELSE index_array' = index_array
    /\ batch_index' = 0
    /\ seen' = <<>>
    /\ gen_pc' = "for"
    /\ UNCHANGED <<args, batches, gen_running, batch_ids, batch_ids_delay,
                   out, lock, pc, delivered, pass, weights>>

\* one iteration of the for loop, up to and including its yield
GenBatch(t) ==
    /\ pc[t] = "in"
    /\ gen_pc = "for"
    /\ batch_index < Len(batches)
    /\ batch_ids' = SliceBatch(index_array, batches, batch_index)
    /\ BatchError(args, batch_ids') = "none"
    /\ batch_ids_delay' = DelayIndices(args, batch_ids')
    /\ out' = YieldValue(args, batch_ids', batch_ids_delay')
    /\ gen_pc' = "yield"
    /\ gen_running' = FALSE
    /\ pc' = [pc EXCEPT ![t] = "got"]
    /\ delivered' = Append(delivered,
           [val |-> "batch", pass |-> pass, batch_index |-> batch_index])
    /\ seen' = Append(seen, batch_ids')
    /\ weights' = CallerWeightsAfter(args, weights, batch_ids')
    /\ UNCHANGED <<args, index_array, batches, batch_index, lock, pass>>

\* one iteration of the for loop that raises: the exception leaves the
\* generator, which is finished from then on
GenRaise(t) ==
    /\ pc[t] = "in"
    /\ gen_pc = "for"
    /\ batch_index < Len(batches)
    /\ batch_ids' = SliceBatch(index_array, batches, batch_index)
    /\ BatchError(args, batch_ids') # "none"
    /\ batch_ids_delay' = DelayIndices(args, batch_ids')
    /\ gen_pc' = "done"
    /\ gen_running' = FALSE
    /\ pc' = [pc EXCEPT ![t] = "raised"]
    /\ delivered' = Append(delivered,
           [val |-> BatchError(args, batch_ids'), pass |-> pass,
            batch_index |-> batch_index])
    /\ UNCHANGED <<args, index_array, batches, batch_index, out, lock, pass,
                   seen, weights>>

\* mutant: no enclosing "while 1", the generator returns after one pass
GenForEnd_Stop(t) ==
    /\ pc[t] = "in"
    /\ gen_pc = "for"
    /\ batch_index >= Len(batches)
    /\ gen_pc' = "done"
    /\ gen_running' = FALSE
    /\ pc' = [pc EXCEPT ![t] = "raised"]
    /\ delivered' = Append(delivered,
           [val |-> "StopIteration", pass |-> pass, batch_index |-> batch_index])
    /\ UNCHANGED <<args, index_array, batches, batch_index, batch_ids,
                   batch_ids_delay, out, lock, pass,
                   seen, weights>>

\* the for loop has run out of batches: back to the head of the while loop
GenForEnd(t) ==
    /\ pc[t] = "in"
    /\ gen_pc = "for"
    /\ batch_index >= Len(batches)
    /\ gen_pc' = "while"
    /\ pass' = Min(pass + 1, MaxCalls + 1)
    /\ UNCHANGED <<args, index_array, batches, batch_index, gen_running,
                   batch_ids, batch_ids_delay, out, lock, pc, delivered,
                   seen, weights>>

Next ==
    \E t \in Threads :
        \/ Acquire(t)
        \/ Call(t)
        \/ Enter(t)
        \/ Release(t)
        \/ GenSetup(t)
        \/ GenWhile(t)
        \/ GenBatch(t)
        \/ GenForEnd(t)

Spec == Init /\ [][Next]_vars

\* a thread that is inside next() keeps running: the interpreter schedules
\* every runnable thread again and again
RunThread(t) ==
    \/ Enter(t)
    \/ GenSetup(t)
    \/ GenWhile(t)
    \/ GenBatch(t)
    \/ GenForEnd(t)
    \/ Release(t)

FairSpec == Init /\ [][Next]_vars /\ \A t \in Threads : WF_vars(RunThread(t))

----------------------------------------------------------------------------
(* The generators with callers that may also pass a y one row shorter than *)
(* x, which makes the batch holding the last index raise.                  *)

ArgsShortY ==
    {[gen |-> "time_delay_generator", N |-> n, batch_size |-> bs,
      delays |-> <<"int", k>>, y |-> TRUE, weights |-> FALSE, shuffle |-> sh,
      x_is_list |-> FALSE, y_rows |-> n - 1] :
        n \in 1..MaxN, bs \in 1..MaxN, k \in 1..MaxDelay, sh \in BOOLEAN}

InitErr == InitGen(ArgsTD \cup ArgsAE \cup ArgsConv \cup ArgsShortY)

NextErr == Next \/ \E t \in Threads : GenRaise(t)

SpecErr == InitErr /\ [][NextErr]_vars

----------------------------------------------------------------------------
(* One iteration of the for loop of time_delay_generator on a longer       *)
(* recording: the generator stands at the head of its first for loop, the  *)
(* index array shuffled, and a thread runs the body up to the yield.       *)

ArgsBatch ==
    {[gen |-> "time_delay_generator", N |-> MaxRows, batch_size |-> bs,
      delays |-> <<"int", k>>, y |-> TRUE, weights |-> hw, shuffle |-> TRUE,
      x_is_list |-> FALSE] :
        bs \in 1..MaxIds, k \in 1..MaxCount, hw \in BOOLEAN}

\* the elements of a set of numbers in ascending order
Ascending(S) ==
    [i \in 1..Cardinality(S) |->
        CHOOSE v \in S : Cardinality({u \in S : u < v}) = i - 1]

\* the shuffled index arrays told apart by their first batch: any batch_size
\* distinct indices in any order, followed by the other indices
ShuffledUpToFirstBatch(a) ==
    {ids \o Ascending((0..(a.N - 1)) \ {ids[p] : p \in 1..Len(ids)}) :
        ids \in Orderings(0..(a.N - 1), a.batch_size)}

InitBatch ==
    /\ args \in ArgsBatch
    /\ index_array \in ShuffledUpToFirstBatch(args)
    /\ batches = SetupBatches(args)
    /\ batch_index = 0
    /\ gen_pc = "for"
    /\ gen_running = TRUE
    /\ batch_ids = <<>>
    /\ batch_ids_delay = <<>>
    /\ out = [arity |-> 0]
    /\ lock = 1
    /\ pc = [t \in Threads |-> IF t = 1 THEN "in" ELSE "idle"]
    /\ delivered = <<>>
    /\ pass = 0
    /\ seen = <<>>
    /\ weights = SuppliedWeights(args)

NextBatch == \E t \in Threads : GenBatch(t)

SpecBatch == InitBatch /\ [][NextBatch]_vars

----------------------------------------------------------------------------
(* The partitioners called on their own *)

ArgsPart ==
    {[fn |-> "partition", size |-> sz, batch_size |-> bs, overlap |-> ov,
      filt_length |-> fl] :
        sz \in 1..MaxSize, bs \in 1..MaxBatch, ov \in 0..(MaxBatch - 1),
        fl \in 1..MaxFilt}

\* the callers keep 0 <= overlap < batch_size
InitPart == InitGen({a \in ArgsPart : a.overlap < a.batch_size})

CallMakeBatches ==
    /\ gen_pc = "entry"
    /\ batches' = _make_batches(args.size, args.batch_size)
    /\ gen_pc' = "ret_plain"
    /\ UNCHANGED <<args, index_array, batch_index, gen_running, batch_ids,
                   batch_ids_delay, out, lock, pc, delivered, pass,
                   seen, weights>>

CallMakeBatchesOverlap ==
    /\ gen_pc = "entry"
    /\ batches' = _make_batches_overlap(args.size, args.batch_size,
                                        args.overlap, args.filt_length)
    /\ gen_pc' = "ret_overlap"
    /\ UNCHANGED <<args, index_array, batch_index, gen_running, batch_ids,
                   batch_ids_delay, out, lock, pc, delivered, pass,
                   seen, weights>>

NextPart == CallMakeBatches \/ CallMakeBatchesOverlap

SpecPart == InitPart /\ [][NextPart]_vars

----------------------------------------------------------------------------
(* Vocabulary of the properties *)

IsTD == args.gen = "time_delay_generator"
IsAE == args.gen = "time_delay_generator_AE"
IsConv == args.gen = "time_delay_generator_conv"

\* the generator is suspended at its yield: out is the value just handed out
AtYield == gen_pc = "yield"

\* the largest element of a non-empty sequence of numbers
MaxOf(s) == CHOOSE m \in {s[p] : p \in 1..Len(s)} : \A p \in 1..Len(s) : s[p] <= m

\* the indices a window (start, end) stands for
Window(w) == w[1]..(w[2] - 1)

\* the delay set the delay-index builder of the running generator walks
DelaysUsed == IF IsTD THEN DelaySet(args.delays) ELSE PyRange(args.delays)

\* clamp(v, 0, N - 1) as the specification words it
ClampTo(v, N) == IF v < 0 THEN 0 ELSE IF v > N - 1 THEN N - 1 ELSE v

\* the k-th value (k = 1, 2, ...) a single sequential consumer receives from
\* a generator that walks nb batch ranges per pass
Sequential(k, nb) ==
    [val |-> "batch", pass |-> (k - 1) \div nb, batch_index |-> (k - 1) % nb]

TypeOK ==
    /\ gen_pc \in {"entry", "while", "for", "yield", "done", "ret_plain", "ret_overlap"}
    /\ lock \in 0..NumThreads
    /\ \A t \in Threads : pc[t] \in {"idle", "calling", "in", "got", "raised"}

----------------------------------------------------------------------------
(* C1 .. C10 *)

\* C1: in every batch time_delay_generator yields with targets, the weight of
\* the sample whose index is i is 0 when i < max(delay set) and otherwise the
\* supplied weight of i (1 when no weights were supplied), whatever the order
\* of the delay set.
C1_WeightMaskedBelowMaxDelay ==
    (IsTD /\ AtYield /\ out.arity = 3) =>
        /\ Len(out.w[1]) = Len(batch_ids)
        /\ \A b \in 1..Len(batch_ids) :
              out.w[1][b] =
                  IF batch_ids[b] < MaxOf(DelaySet(args.delays)) THEN 0
                  ELSE IF args.weights THEN W(args.N)[batch_ids[b] + 1]
                  ELSE 1

\* C2: for size > 0 and 0 <= overlap < batch_size the windows of
\* _make_batches_overlap are such that two consecutive ones share exactly
\* overlap indices (the final window excepted) and their union is the whole
\* range [0, size), so the list is not empty.
C2_OverlapWindowsCover ==
    gen_pc = "ret_overlap" =>
        /\ \A p \in 1..(Len(batches) - 2) :
              Cardinality(Window(batches[p]) \cap Window(batches[p + 1]))
                  = args.overlap
        /\ UNION {Window(batches[p]) : p \in 1..Len(batches)}
              = 0..(args.size - 1)

\* C3: at most one thread is inside next() of the wrapped generator; while a
\* thread is between taking the lock and leaving next(), it is the holder of
\* the lock and every other thread is outside.
C3_MutualExclusion ==
    Wrapped(args) =>
        \A t \in Threads :
            pc[t] # "idle" =>
                /\ lock = t
                /\ \A u \in Threads \ {t} : pc[u] = "idle"

C3_Witness ==
    /\ Wrapped(args)
    /\ pc[2] = "in"
    /\ pc[1] = "idle"
    /\ Len(delivered) >= 1

\* C4: the values handed out by a wrapped time_delay_generator, in the order
\* the lock was taken, are the values a single sequential consumer receives:
\* batch range 0, 1, ..., nb-1 of pass 0, then of pass 1, ... with no range
\* skipped or repeated and no call failing; and the batch handed out is the
\* slice of the index array as it stands, not of an array reshuffled since.
C4_SequentialDelivery ==
    Wrapped(args) =>
        /\ \A k \in 1..Len(delivered) :
              delivered[k] = Sequential(k, CeilDiv(args.N, args.batch_size))
        /\ AtYield =>
              /\ batch_ids = SliceBatch(index_array, batches, batch_index)
              /\ delivered[Len(delivered)].pass = pass
              /\ delivered[Len(delivered)].batch_index = batch_index

C4_Witness ==
    /\ Wrapped(args)
    /\ args.shuffle
    /\ AtYield
    /\ pass >= 1
    /\ Len(batches) >= 2
    /\ batch_index = 1
    /\ pc[2] = "got"

\* C5: every delay index built for a batch lies in [0, N-1]: it is i - d when
\* that is in range and the nearest bound otherwise, for every index i of the
\* batch and every delay d, in time_delay_generator and in
\* time_delay_generator_AE, so every row gathered from x is a row of x.
C5_DelayIndexClamped ==
    ((IsTD \/ IsAE) /\ AtYield) =>
        /\ Len(batch_ids_delay) = Len(DelaysUsed)
        /\ \A k \in 1..Len(batch_ids_delay) :
              /\ Len(batch_ids_delay[k]) = Len(batch_ids)
              /\ \A b \in 1..Len(batch_ids) :
                    /\ batch_ids_delay[k][b] \in 0..(args.N - 1)
                    /\ batch_ids_delay[k][b]
                           = ClampTo(batch_ids[b] - DelaysUsed[k], args.N)
                    /\ out.x[1][b][k] \in {X(1, args.N)[p] : p \in 1..args.N}

C5_Witness ==
    /\ IsAE
    /\ args.shuffle
    /\ AtYield
    /\ pass >= 1
    /\ \E k \in 1..Len(batch_ids_delay) : \E b \in 1..Len(batch_ids) :
          /\ batch_ids[b] - DelaysUsed[k] < 0
          /\ batch_ids_delay[k][b] = 0
    /\ \E k \in 1..Len(batch_ids_delay) : \E b \in 1..Len(batch_ids) :
          /\ DelaysUsed[k] > 0
          /\ batch_ids_delay[k][b] = batch_ids[b] - DelaysUsed[k]

\* C6: for size > 0 and batch_size > 0 the ranges of _make_batches are
\* contiguous and disjoint, start at 0, end at size, and each has length
\* batch_size except possibly the last, which is clipped to size; size = 10,
\* batch_size = 3 gives (0,3), (3,6), (6,9), (9,10).
C6_PlainPartition ==
    gen_pc = "ret_plain" =>
        /\ Len(batches) >= 1
        /\ batches[1][1] = 0
        /\ batches[Len(batches)][2] = args.size
        /\ \A p \in 1..(Len(batches) - 1) :
              /\ batches[p + 1][1] = batches[p][2]
              /\ batches[p][2] - batches[p][1] = args.batch_size
        /\ LET last == batches[Len(batches)]
           IN  last[1] < last[2] /\ last[2] - last[1] <= args.batch_size
        /\ (args.size = 10 /\ args.batch_size = 3) =>
              batches = <<<<0, 3>>, <<3, 6>>, <<6, 9>>, <<9, 10>>>>

C6_Witness ==
    /\ gen_pc = "ret_plain"
    /\ args.size = 10
    /\ args.batch_size = 3
    /\ Len(batches) = 4

\* C7: time_delay_generator and time_delay_generator_AE never finish: the
\* generator is never exhausted, its batch list is not empty, no next() ends
\* in StopIteration, and every value handed out is a batch, the one after the
\* last range of a pass being range 0 of the following pass.
C7_NeverExhausted ==
    (IsTD \/ IsAE) =>
        /\ gen_pc # "done"
        /\ gen_pc # "entry" => Len(batches) >= 1
        /\ \A t \in Threads : pc[t] # "raised"
        /\ \A k \in 1..Len(delivered) :
              /\ delivered[k].val = "batch"
              /\ (k > 1 /\ delivered[k - 1].batch_index = Len(batches) - 1) =>
                    /\ delivered[k].batch_index = 0
                    /\ delivered[k].pass = delivered[k - 1].pass + 1

C7_Witness ==
    /\ IsAE
    /\ args.shuffle
    /\ AtYield
    /\ Len(delivered) = MaxCalls
    /\ pass >= 2

\* C8 as stated: time_delay_generator_conv yields each window once, in
\* order, in a single pass, and a request made after the last window is
\* answered by exhaustion.
C8_ConvSinglePass ==
    IsConv =>
        \A k \in 1..Len(delivered) :
            IF k <= Len(batches)
            THEN delivered[k] = Sequential(k, Len(batches))
            ELSE delivered[k].val = "StopIteration"

\* C8 amended: time_delay_generator_conv does not exhaust: it yields each
\* window of its batch list once, in order, in every pass, and after the last
\* window it starts another pass over the same windows.
C8_ConvRepeatsPasses ==
    IsConv =>
        /\ gen_pc # "done"
        /\ \A t \in Threads : pc[t] # "raised"
        /\ \A k \in 1..Len(delivered) :
              delivered[k] = Sequential(k, Len(batches))
        /\ AtYield =>
              /\ batch_ids = SliceBatch(index_array, batches, batch_index)
              /\ index_array = SetupIndexArray(args)

C8_Witness ==
    /\ IsConv
    /\ AtYield
    /\ Len(batches) >= 2
    /\ pass >= 1
    /\ batch_index = 1

\* C9: every yielded value is a bare x collection when no target is supplied
\* and a 3-tuple (x, y, weights) when one is: no generator yields a tuple of
\* another arity or drops a supplied target.
C9_OutputContract ==
    AtYield =>
        \/ out.arity = 1 /\ ~args.y
        \/ out.arity = 3 /\ args.y

\* C10: in time_delay_generator, for every source array x_j, batch position b
\* and delay position k, x_batch_j[b][k] is row
\* clamp(batch_ids[b] - delays[k], 0, N-1) of x_j: the batch has one entry per
\* batch id, each with one row per delay, in the order of the delay set.
C10_SampleAssembly ==
    (IsTD /\ AtYield) =>
        /\ Len(out.x) = Len(XList(args))
        /\ \A j \in 1..Len(out.x) :
              /\ Len(out.x[j]) = Len(batch_ids)
              /\ \A b \in 1..Len(batch_ids) :
                    /\ Len(out.x[j][b]) = Len(DelaySet(args.delays))
                    /\ \A k \in 1..Len(DelaySet(args.delays)) :
                          out.x[j][b][k] =
                              X(j, args.N)[ClampTo(batch_ids[b]
                                  - DelaySet(args.delays)[k], args.N) + 1]

C10_Witness ==
    /\ IsTD
    /\ AtYield
    /\ args.x_is_list
    /\ args.delays = <<"list", <<2, 0>>>>
    /\ Len(batch_ids) = 3
    /\ batch_ids # <<0, 1, 2>>
    /\ out.x[2][1] # out.x[2][2]

----------------------------------------------------------------------------
(* C11 .. C19 *)

\* C11 as stated: with no weights and an integer delay count k, every sample
\* whose index is among 0..k-1 gets weight 0 and every other sample weight 1
\* (delays = 3, batch_ids 0, 1, 2, 5: weights 0, 0, 0, 1).
C11_FirstKZeroed ==
    (IsTD /\ AtYield /\ args.y /\ ~args.weights /\ args.delays[1] = "int") =>
        \A b \in 1..Len(batch_ids) :
            out.w[1][b] = IF batch_ids[b] <= args.delays[2] - 1 THEN 0 ELSE 1

\* C11 amended: with no weights and an integer delay count k, every sample
\* whose index is below k-1 (0..k-2) gets weight 0 and every other sample
\* weight 1 (delays = 3, batch_ids 0, 1, 2, 5: weights 0, 0, 1, 1).
C11_BelowLastDelayZeroed ==
    (IsTD /\ AtYield /\ args.y /\ ~args.weights /\ args.delays[1] = "int") =>
        /\ Len(out.w[1]) = Len(batch_ids)
        /\ \A b \in 1..Len(batch_ids) :
              out.w[1][b] = IF batch_ids[b] < args.delays[2] - 1 THEN 0 ELSE 1
        /\ (batch_ids = <<0, 1, 2, 5>> /\ args.delays[2] = 3) =>
              out.w[1] = <<0, 0, 1, 1>>

C11_Witness ==
    /\ IsTD
    /\ AtYield
    /\ ~args.weights
    /\ args.delays = <<"int", 3>>
    /\ batch_ids = <<0, 1, 2, 5>>
    /\ out.w = <<<<0, 0, 1, 1>>>>

\* C12: every next() call completes by yielding a value: a thread that has
\* resumed a generator is eventually handed a batch, so no generator loops
\* forever without reaching a yield.
C12_EveryNextYields ==
    \A t \in Threads : (pc[t] = "in") ~> (pc[t] = "got")

\* the positions start .. end-1 of a window, those past the last row of an
\* N-row recording replaced by N-1
PaddedWindow(w, N) == [p \in 1..(w[2] - w[1]) |-> Min(N - 1, w[1] + p - 1)]

\* C13: time_delay_generator_conv never reshuffles: the k-th value it yields
\* (k = 0, 1, ...) is built from window k mod nb, and the indices of a window
\* are the same in every pass.
C13_ConvFixedWindows ==
    IsConv =>
        /\ \A k \in 1..Len(delivered) :
              /\ delivered[k].val = "batch"
              /\ delivered[k].batch_index = (k - 1) % Len(batches)
        /\ \A i \in 1..Len(seen) : seen[i] = PaddedWindow(batches[i], args.N)
        /\ AtYield =>
              /\ Len(seen) = batch_index + 1
              /\ batch_ids = seen[batch_index + 1]

C13_Witness ==
    /\ IsConv
    /\ AtYield
    /\ args.N >= 3
    /\ Len(batches) >= 2
    /\ pass >= 1
    /\ batch_index = 0
    /\ Len(delivered) = Len(batches) + 1

\* C14: with shuffle disabled time_delay_generator and
\* time_delay_generator_AE keep the index array in ascending order: the batch
\* of range (start, end) has batch_ids start, ..., end-1, the ranges are
\* yielded in ascending order, and every pass yields the same batches.
C14_NoShuffleAscending ==
    ((IsTD \/ IsAE) /\ ~args.shuffle) =>
        /\ gen_pc # "entry" => index_array = [p \in 1..args.N |-> p - 1]
        /\ \A k \in 1..Len(delivered) :
              delivered[k].batch_index = (k - 1) % Len(batches)
        /\ \A i \in 1..Len(seen) :
              seen[i] = [p \in 1..(batches[i][2] - batches[i][1]) |->
                            batches[i][1] + p - 1]
        /\ AtYield =>
              /\ Len(seen) = batch_index + 1
              /\ batch_ids = seen[batch_index + 1]

C14_Witness ==
    /\ IsTD
    /\ ~args.shuffle
    /\ AtYield
    /\ pass >= 1
    /\ batch_index >= 1
    /\ Len(batch_ids) >= 1
    /\ batch_ids[1] >= 1

\* C15: for 0 <= overlap < batch_size and size >= batch_size,
\* _make_batches_overlap returns ceil((size - batch_size) / step) + 1 windows
\* with step = batch_size - overlap, that is as many as it takes for the last
\* one to start at or after size - batch_size and no more; window i starts at
\* i * step; every window is non-empty within [0, size]; only the final window
\* can be shorter than batch_size; size = 20, batch_size = 6, overlap = 2
\* gives (0,6), (4,10), (8,14), (12,18), (16,20).
C15_OverlapWindowList ==
    (gen_pc = "ret_overlap" /\ args.size >= args.batch_size) =>
        LET step == args.batch_size - args.overlap
            nb == Len(batches)
        IN  /\ nb >= 1
            /\ (nb - 1) * step >= args.size - args.batch_size
            /\ nb >= 2 => (nb - 2) * step < args.size - args.batch_size
            /\ \A p \in 1..nb :
                  /\ batches[p][1] = (p - 1) * step
                  /\ 0 <= batches[p][1]
                  /\ batches[p][1] < batches[p][2]
                  /\ batches[p][2] <= args.size
                  /\ p < nb => batches[p][2] - batches[p][1] = args.batch_size
            /\ (args.size = 20 /\ args.batch_size = 6 /\ args.overlap = 2) =>
                  batches = <<<<0, 6>>, <<4, 10>>, <<8, 14>>, <<12, 18>>, <<16, 20>>>>

C15_Witness ==
    /\ gen_pc = "ret_overlap"
    /\ args.size = 20
    /\ args.batch_size = 6
    /\ args.overlap = 2
    /\ Len(batches) = 5
    /\ batches[5] = <<16, 20>>

\* the entries of a sequence of sequences, in order
RECURSIVE Flatten(_)
Flatten(ss) == IF Len(ss) = 0 THEN <<>> ELSE Head(ss) \o Flatten(Tail(ss))

\* the values of a sequence
Values(q) == {q[p] : p \in 1..Len(q)}

\* C16: in time_delay_generator the index array is a permutation of 0..N-1
\* in every state after setup and does not change between the yields of one
\* pass: the batches yielded so far in a pass are, in order, the leading part
\* of the index array as it stands, they are pairwise disjoint, and at the
\* last batch of a pass they contain every index of [0, N) exactly once.
C16_PerPassCoverage ==
    IsTD =>
        /\ gen_pc # "entry" =>
              /\ Len(index_array) = args.N
              /\ Values(index_array) = 0..(args.N - 1)
        /\ LET flat == Flatten(seen)
           IN  /\ Len(flat) <= Len(index_array)
               /\ flat = SubSeq(index_array, 1, Len(flat))
               /\ Cardinality(Values(flat)) = Len(flat)
               /\ (AtYield /\ batch_index = Len(batches) - 1) =>
                     /\ Len(flat) = args.N
                     /\ Values(flat) = 0..(args.N - 1)
        /\ \A i, j \in 1..Len(seen) :
              i # j => Values(seen[i]) \cap Values(seen[j]) = {}

C16_Witness ==
    /\ IsTD
    /\ args.shuffle
    /\ AtYield
    /\ pass >= 1
    /\ Len(batches) >= 2
    /\ batch_index = Len(batches) - 1
    /\ index_array = <<2, 0, 1>>
    /\ Flatten(seen) = <<2, 0, 1>>

\* C17: in time_delay_generator_conv with B = frames_per_TR * TRs_in_model
\* + filt_length - 1 and N >= B, every window holds exactly B indices (the
\* final one too), consecutive windows start frames_per_TR apart, every index
\* is in [0, N-1], a position past the end of the recording holds N-1, and
\* the windows of one pass contain every index of [0, N).
C17_ConvFullPaddedWindows ==
    (IsConv /\ args.N >= ConvBatchSize(args)) =>
        /\ gen_pc # "entry" =>
              /\ Len(batches) >= 1
              /\ \A p \in 1..Len(batches) :
                    /\ batches[p][1] = (p - 1) * args.frames_per_TR
                    /\ batches[p][2] - batches[p][1] = ConvBatchSize(args)
        /\ AtYield =>
              /\ Len(batch_ids) = ConvBatchSize(args)
              /\ \A q \in 1..Len(batch_ids) :
                    LET pos == batch_index * args.frames_per_TR + q - 1
                    IN  /\ batch_ids[q] \in 0..(args.N - 1)
                        /\ batch_ids[q] = IF pos <= args.N - 1 THEN pos
                                          ELSE args.N - 1
        /\ (AtYield /\ batch_index = Len(batches) - 1) =>
              Values(Flatten(seen)) = 0..(args.N - 1)

C17_Witness ==
    /\ IsConv
    /\ args.N > ConvBatchSize(args)
    /\ AtYield
    /\ Len(batches) >= 2
    /\ batch_index = Len(batches) - 1
    /\ batch_index * args.frames_per_TR + ConvBatchSize(args) > args.N
    /\ batch_ids[Len(batch_ids)] = args.N - 1
    /\ batch_ids[Len(batch_ids) - 1] = args.N - 1

\* C18: the caller's weights array holds its initial values after any number
\* of next() calls on time_delay_generator: the zeroing of warm-up weights
\* acts on the batch's copy, and every batch, in every pass, reads the
\* supplied weight of each sample that is not zeroed.
C18_InputsUnchanged ==
    IsTD =>
        /\ weights = SuppliedWeights(args)
        /\ (AtYield /\ args.y /\ args.weights) =>
              \A b \in 1..Len(batch_ids) :
                  \/ out.w[1][b] = W(args.N)[batch_ids[b] + 1]
                  \/ /\ out.w[1][b] = 0
                     /\ batch_ids[b] < DelaySet(args.delays)[Len(DelaySet(args.delays))]

C18_Witness ==
    /\ IsTD
    /\ args.y
    /\ args.weights
    /\ AtYield
    /\ pass >= 1
    /\ \E b \in 1..Len(batch_ids) :
          /\ out.w[1][b] = 0
          /\ weights[batch_ids[b] + 1] = W(args.N)[batch_ids[b] + 1]
          /\ weights[batch_ids[b] + 1] # 0
    /\ \E b \in 1..Len(batch_ids) : out.w[1][b] = W(args.N)[batch_ids[b] + 1]

\* C19: the iterator lock is held exactly while a thread is inside
\* threadsafe_iter.next: it is free again whenever every call has finished,
\* whether by a value or by an exception of the generator (an error raised by
\* the loop body, or exhaustion); the caller receives what the generator
\* produced, a batch when it yielded and the exception when it raised.
C19_LockReleased ==
    Wrapped(args) =>
        /\ lock = 0 <=> \A t \in Threads : pc[t] = "idle"
        /\ lock # 0 => pc[lock] # "idle"
        /\ \A t \in Threads :
              /\ pc[t] = "got" => delivered[Len(delivered)].val = "batch"
              /\ pc[t] = "raised" =>
                    delivered[Len(delivered)].val \in {"IndexError", "StopIteration"}
        /\ \A k \in 1..Len(delivered) :
              (k > 1 /\ delivered[k - 1].val # "batch") =>
                  delivered[k].val = "StopIteration"

C19_Witness ==
    /\ Wrapped(args)
    /\ Len(delivered) >= 3
    /\ delivered[Len(delivered) - 1].val = "IndexError"
    /\ delivered[Len(delivered)].val = "StopIteration"
    /\ lock = 0
    /\ \A t \in Threads : pc[t] = "idle"

====
